---- MODULE Spec2Model ----
(***************************************************************************)
(* AppLogger (src/src/app-logger.ts): a process-wide singleton wrapping a  *)
(* winston Logger.  Every process has its own singleton and heap; the      *)
(* filesystem is shared between processes.                                 *)
(*                                                                         *)
(* Optional values (undefined / absent sections) are sequences of length   *)
(* at most one: <<>> is undefined, <<v>> is the value v.                   *)
(***************************************************************************)
EXTENDS Integers, Sequences, FiniteSets, TLC

\* ------------------------------------------------------------------ bounds
NumProcs == 2
MaxMsg == 1

Procs == 1..NumProcs
Main == CHOOSE p \in Procs : \A q \in Procs : p <= q
Msgs == 1..MaxMsg

\* ------------------------------------------------------- levels and config
\* LogLevel enum (src/src/log-level.enum.ts is not part of the sources): the
\* six winston npm level names, most urgent first.
Levels == <<"error", "warn", "info", "verbose", "debug", "silly">>
LogLevel == {Levels[i] : i \in DOMAIN Levels}
\* winston npm priority of a level: error 0 .. silly 5
Rank(l) == (CHOOSE i \in DOMAIN Levels : Levels[i] = l) - 1

\* file.path: the empty string, which `params.file.path` treats as falsy, or
\* the directory the application passes (folderRoot in the tests)
EmptyPath == ""
FolderRoot == "folderRoot"
RealPaths == {FolderRoot}
PathSet == {EmptyPath} \cup RealPaths

ConsoleSection == [level : LogLevel]
\* maxFileCount is handed to the backend unread; the callers in the tests and
\* the README all pass 5
UsualMaxFileCount == 5
\* A file section whose path is empty is read no further than its path
\* (line 60), so one such section stands for all of them.
FileSection ==
  {f \in [path : PathSet, level : LogLevel, logAsJson : BOOLEAN,
          maxFileCount : {UsualMaxFileCount}] :
     f.path = EmptyPath => (f.level = "silly" /\ f.logAsJson)}
Opt(S) == {<<>>} \cup {<<x>> : x \in S}
ILoggerParams == [console : Opt(ConsoleSection), file : Opt(FileSection)]

\* ------------------------------------------------------------- filesystem
\* For every path P: what P itself is (a writable directory, a read-only
\* directory, a regular file or nothing), and what P/logs is.  Entries under
\* a writable directory come and go; the other parents are taken empty.
ParentKinds == {"dir", "rodir", "absent", "file"}
EntryKinds == {"absent", "dir", "file"}
FsNodes == {n \in [parent : ParentKinds, logs : EntryKinds] :
              n.logs # "absent" => n.parent = "dir"}

\* fs.existsSync(path.join(P, 'logs'))
existsSync(fsys, P) == fsys[P].parent \in {"dir", "rodir"} /\ fsys[P].logs # "absent"

\* fs.mkdirSync(path.join(P, 'logs')): throws unless the entry is absent and
\* P is a writable directory
mkdirSync(fsys, P) ==
  CASE fsys[P].parent = "absent" -> [threw |-> "ENOENT", fsys |-> fsys]
    [] fsys[P].parent = "file" -> [threw |-> "ENOTDIR", fsys |-> fsys]
    [] fsys[P].parent \in {"dir", "rodir"} /\ fsys[P].logs # "absent" ->
         [threw |-> "EEXIST", fsys |-> fsys]
    [] fsys[P].parent = "rodir" /\ fsys[P].logs = "absent" ->
         [threw |-> "EACCES", fsys |-> fsys]
    [] OTHER -> [threw |-> "none",
                 fsys |-> [fsys EXCEPT ![P] = [@ EXCEPT !.logs = "dir"]]]

\* ------------------------------------------------------------- transports
ConsoleTransport(params) ==
  [name |-> "console", level |-> params.console[1].level, json |-> FALSE,
   colorize |-> TRUE, filename |-> <<>>, maxFiles |-> <<>>]

\* variant: the file transport filtered at the console's level
DailyRotateFileTransport_consoleLevel(params) ==
  [name |-> "dailyRotateFile", level |-> params.console[1].level,
   json |-> params.file[1].logAsJson, colorize |-> FALSE,
   filename |-> <<params.file[1].path>>,
   maxFiles |-> <<params.file[1].maxFileCount>>]

DailyRotateFileTransport(params) ==
  [name |-> "dailyRotateFile", level |-> params.file[1].level,
   json |-> params.file[1].logAsJson, colorize |-> FALSE,
   filename |-> <<params.file[1].path>>,
   maxFiles |-> <<params.file[1].maxFileCount>>]

\* `params.file && params.file.path`
WantsFile(params) == params.file # <<>> /\ params.file[1].path # EmptyPath

\* AppLogger._getTransports from the mkdirSync call on (the existence check
\* answered false).  threw: "none" or the error thrown; t: the transports
\* built; mkdirs: how many times mkdirSync was called; sawAbsent: whether
\* existsSync answered false.
CreateAndAttach(params, fsys, t1) ==
  LET m == mkdirSync(fsys, params.file[1].path) IN
  IF m.threw # "none"
  THEN [threw |-> m.threw, t |-> t1, fsys |-> m.fsys, mkdirs |-> 1, sawAbsent |-> TRUE]
  ELSE [threw |-> "none", t |-> Append(t1, DailyRotateFileTransport(params)),
        fsys |-> m.fsys, mkdirs |-> 1, sawAbsent |-> TRUE]

\* AppLogger._getTransports
_getTransports(params, fsys) ==
  IF params.console = <<>>
  THEN [threw |-> "TypeError", t |-> <<>>, fsys |-> fsys, mkdirs |-> 0,
        sawAbsent |-> FALSE]
  ELSE LET t1 == <<ConsoleTransport(params)>> IN
       IF WantsFile(params)
       THEN IF ~existsSync(fsys, params.file[1].path)
            THEN CreateAndAttach(params, fsys, t1)
            ELSE [threw |-> "none",
                  t |-> Append(t1, DailyRotateFileTransport(params)),
                  fsys |-> fsys, mkdirs |-> 0, sawAbsent |-> FALSE]
       ELSE [threw |-> "none", t |-> t1, fsys |-> fsys, mkdirs |-> 0,
             sawAbsent |-> FALSE]

\* ------------------------------------------------------- AppLogger object
\* new AppLogger(): no fields set
NewAppLogger == [_logger |-> <<>>, morganWriteStream |-> <<>>]

\* AppLogger._initializeStreams: a fresh adapter whose closure captures `this`
_initializeStreams(this, self) == [this EXCEPT !.morganWriteStream = <<[owner |-> self]>>]

\* AppLogger.init once _getTransports has returned or thrown (r): on a throw
\* the catch block rethrows and no field was assigned; otherwise the new
\* Logger replaces the old one and the adapter is rebuilt.
Complete(this, self, r) ==
  IF r.threw # "none"
  THEN [this |-> this, fsys |-> r.fsys, threw |-> r.threw, mkdirs |-> r.mkdirs,
        sawAbsent |-> r.sawAbsent]
  ELSE [this |-> _initializeStreams([this EXCEPT !._logger = <<[transports |-> r.t]>>], self),
        fsys |-> r.fsys, threw |-> "none", mkdirs |-> r.mkdirs,
        sawAbsent |-> r.sawAbsent]

\* variant: the new transports are added to those of the previous Logger
init_stacking(this, self, params, fsys) ==
  LET r == _getTransports(params, fsys)
      old == IF this._logger = <<>> THEN <<>> ELSE this._logger[1].transports IN
  Complete(this, self, [r EXCEPT !.t = old \o r.t])

\* variant: the old Logger is dropped before the transports are built
init_dropping(this, self, params, fsys) ==
  LET r == _getTransports(params, fsys) IN
  IF r.threw # "none"
  THEN Complete([this EXCEPT !._logger = <<>>], self, r)
  ELSE Complete(this, self, r)

\* AppLogger.init
init(this, self, params, fsys) == Complete(this, self, _getTransports(params, fsys))

\* --------------------------------------------------------- winston backend
\* winston Logger.log: hands the entry to every transport whose level is at
\* least as verbose as the entry's level, in attachment order.
LoggerLog(logger, level, msg) ==
  LET sel == SelectSeq(logger.transports, LAMBDA tr : Rank(tr.level) >= Rank(level)) IN
  [i \in 1..Len(sel) |-> [transport |-> sel[i].name, json |-> sel[i].json,
                          level |-> level, message |-> msg]]

\* variant: without the initialization guard, the call returns silently
_log_unguarded(this, level, msg) ==
  IF this._logger = <<>>
  THEN [threw |-> "none", emitted |-> <<>>]
  ELSE [threw |-> "none", emitted |-> LoggerLog(this._logger[1], level, msg)]

\* AppLogger._log
_log(this, level, msg) ==
  IF this._logger = <<>>
  THEN [threw |-> "NotInitialized", emitted |-> <<>>]
  ELSE [threw |-> "none", emitted |-> LoggerLog(this._logger[1], level, msg)]

\* the six leveled methods
error(this, msg) == _log(this, "error", msg)
warn(this, msg) == _log(this, "warn", msg)
info(this, msg) == _log(this, "info", msg)
verbose(this, msg) == _log(this, "verbose", msg)
debug(this, msg) == _log(this, "debug", msg)
silly(this, msg) == _log(this, "silly", msg)

Methods == {"error", "warn", "info", "verbose", "debug", "silly"}
Invoke(method, this, msg) ==
  CASE method = "error" -> error(this, msg)
    [] method = "warn" -> warn(this, msg)
    [] method = "info" -> info(this, msg)
    [] method = "verbose" -> verbose(this, msg)
    [] method = "debug" -> debug(this, msg)
    [] method = "silly" -> silly(this, msg)

\* variant: the adapter forwards to verbose
write_verbose(hp, adapter, msg) == verbose(hp[adapter.owner], msg)

\* morganWriteStream.write: the closure calls this.info on the owning object
write(hp, adapter, msg) == info(hp[adapter.owner], msg)

\* variant: the getter constructs an object on every access
Log_fresh(inst, hp) ==
  [inst |-> <<Len(hp) + 1>>, hp |-> Append(hp, NewAppLogger), ret |-> Len(hp) + 1]

\* static get Log(): _instance || (_instance = new AppLogger())
Log(inst, hp) ==
  IF inst # <<>>
  THEN [inst |-> inst, hp |-> hp, ret |-> inst[1]]
  ELSE [inst |-> <<Len(hp) + 1>>, hp |-> Append(hp, NewAppLogger), ret |-> Len(hp) + 1]

\* ------------------------------------------------------------------ state
VARIABLES
  _instance,   \* per process: AppLogger._instance, <<>> or <<index into heap>>
  heap,        \* per process: the AppLogger objects constructed so far
  fs,          \* the shared filesystem
  frame,       \* per process: an init call suspended between existsSync and mkdirSync
  held,        \* per process: a morganWriteStream reference the caller kept
  returned,    \* per process: the object indices the getter has returned
  okCfg,       \* per process and object: params of the latest successful init
  done,        \* per process: outcome of the latest init of a concurrent run
  last         \* the operation completed last, with its outcome

vars == <<_instance, heap, fs, frame, held, returned, okCfg, done, last>>

NoOp == [op |-> "none", proc |-> Main, self |-> 0, method |-> "none", msg |-> 0,
         threw |-> "none", emitted |-> <<>>, console |-> FALSE, file |-> <<>>,
         mkdirs |-> 0]

NoDone == [path |-> <<>>, sawAbsent |-> FALSE, threw |-> "none", finished |-> FALSE]

Init ==
  /\ _instance = [p \in Procs |-> <<>>]
  /\ heap = [p \in Procs |-> <<>>]
  /\ fs \in [RealPaths -> FsNodes]
  /\ frame = [p \in Procs |-> <<>>]
  /\ held = [p \in Procs |-> <<>>]
  /\ returned = [p \in Procs |-> {}]
  /\ okCfg = [p \in Procs |-> <<>>]
  /\ done = [p \in Procs |-> NoDone]
  /\ last = NoOp

FilePathOf(params) == IF params.file = <<>> THEN <<>> ELSE <<params.file[1].path>>

\* ---------------------------------------------------------------- actions
\* AppLogger.Log
GetLog(p) ==
  /\ frame[p] = <<>>
  /\ LET r == Log(_instance[p], heap[p]) IN
     /\ _instance' = [_instance EXCEPT ![p] = r.inst]
     /\ heap' = [heap EXCEPT ![p] = r.hp]
     /\ okCfg' = [okCfg EXCEPT ![p] = IF Len(r.hp) > Len(@) THEN Append(@, <<>>) ELSE @]
     /\ returned' = [returned EXCEPT ![p] = @ \cup {r.ret}]
     /\ last' = [NoOp EXCEPT !.op = "Log", !.proc = p, !.self = r.ret]
  /\ UNCHANGED <<fs, frame, held, done>>

\* obj.init(params), run to completion without interference
InitCall(p, self, params) ==
  /\ frame[p] = <<>>
  /\ self \in DOMAIN heap[p]
  /\ LET r == init(heap[p][self], self, params, fs) IN
     /\ heap' = [heap EXCEPT ![p][self] = r.this]
     /\ fs' = r.fsys
     /\ okCfg' = [okCfg EXCEPT ![p][self] = IF r.threw = "none" THEN <<params>> ELSE @]
     /\ last' = [NoOp EXCEPT !.op = "init", !.proc = p, !.self = self,
                             !.threw = r.threw, !.mkdirs = r.mkdirs,
                             !.console = (params.console # <<>>),
                             !.file = FilePathOf(params)]
  /\ UNCHANGED <<_instance, frame, held, returned, done>>

\* obj.error(msg) .. obj.silly(msg)
LeveledCall(p, self, method, msg) ==
  /\ frame[p] = <<>>
  /\ self \in DOMAIN heap[p]
  /\ LET r == Invoke(method, heap[p][self], msg) IN
     last' = [NoOp EXCEPT !.op = "leveled", !.proc = p, !.self = self,
                          !.method = method, !.msg = msg, !.threw = r.threw,
                          !.emitted = r.emitted]
  /\ UNCHANGED <<_instance, heap, fs, frame, held, returned, okCfg, done>>

\* obj.morganWriteStream.write(msg): the property is undefined until init ran
WriteCall(p, self, msg) ==
  /\ frame[p] = <<>>
  /\ self \in DOMAIN heap[p]
  /\ LET s == heap[p][self].morganWriteStream
         r == IF s = <<>> THEN [threw |-> "TypeError", emitted |-> <<>>]
              ELSE write(heap[p], s[1], msg) IN
     last' = [NoOp EXCEPT !.op = "write", !.proc = p, !.self = self, !.msg = msg,
                          !.threw = r.threw, !.emitted = r.emitted]
  /\ UNCHANGED <<_instance, heap, fs, frame, held, returned, okCfg, done>>

\* const s = obj.morganWriteStream, kept by the caller (e.g. given to morgan)
TakeStream(p, self) ==
  /\ frame[p] = <<>>
  /\ self \in DOMAIN heap[p]
  /\ heap[p][self].morganWriteStream # <<>>
  /\ held' = [held EXCEPT ![p] = heap[p][self].morganWriteStream]
  /\ last' = [NoOp EXCEPT !.op = "take", !.proc = p, !.self = self]
  /\ UNCHANGED <<_instance, heap, fs, frame, returned, okCfg, done>>

\* s.write(msg) on the reference kept earlier
HeldWrite(p, msg) ==
  /\ frame[p] = <<>>
  /\ held[p] # <<>>
  /\ LET r == write(heap[p], held[p][1], msg) IN
     last' = [NoOp EXCEPT !.op = "heldwrite", !.proc = p, !.self = held[p][1].owner,
                          !.msg = msg, !.threw = r.threw, !.emitted = r.emitted]
  /\ UNCHANGED <<_instance, heap, fs, frame, held, returned, okCfg, done>>

\* cleanLogsSync (tests): rimraf of the pattern P/logs/**, which matches
\* only when P/logs is a directory; a regular file at P/logs is left alone
CleanLogs(P) ==
  /\ fs[P].parent = "dir"
  /\ fs[P].logs = "dir"
  /\ fs' = [fs EXCEPT ![P] = [@ EXCEPT !.logs = "absent"]]
  /\ last' = [NoOp EXCEPT !.op = "clean"]
  /\ UNCHANGED <<_instance, heap, frame, held, returned, okCfg, done>>

Next ==
  \/ GetLog(Main)
  \/ \E self \in DOMAIN heap[Main], params \in ILoggerParams : InitCall(Main, self, params)
  \/ \E self \in DOMAIN heap[Main], method \in Methods, msg \in Msgs :
       LeveledCall(Main, self, method, msg)
  \/ \E self \in DOMAIN heap[Main], msg \in Msgs : WriteCall(Main, self, msg)
  \/ \E self \in DOMAIN heap[Main] : TakeStream(Main, self)
  \/ \E msg \in Msgs : HeldWrite(Main, msg)
  \/ \E P \in RealPaths : CleanLogs(P)

Spec == Init /\ [][Next]_vars

\* ------------------------------------------- concurrent initialization
\* Several processes of one application share the filesystem.  init is
\* synchronous, so within a process nothing interleaves with it; between
\* processes the only shared accesses are existsSync and mkdirSync, and
\* another process can run between the two.

\* the configurations the processes of the application pass: console at
\* info, and possibly a JSON file sink at info
RaceParams ==
  {params \in ILoggerParams :
     /\ params.console = <<[level |-> "info"]>>
     /\ params.file # <<>> => params.file[1].level = "info" /\ params.file[1].logAsJson}

InitOutcome(p, self, params, r) ==
  /\ heap' = [heap EXCEPT ![p][self] = r.this]
  /\ fs' = r.fsys
  /\ okCfg' = [okCfg EXCEPT ![p][self] = IF r.threw = "none" THEN <<params>> ELSE @]
  /\ done' = [done EXCEPT ![p] = [path |-> FilePathOf(params), sawAbsent |-> r.sawAbsent,
                                   threw |-> r.threw, finished |-> TRUE]]
  /\ last' = [NoOp EXCEPT !.op = "init", !.proc = p, !.self = self,
                          !.threw = r.threw, !.mkdirs = r.mkdirs,
                          !.console = (params.console # <<>>),
                          !.file = FilePathOf(params)]

\* obj.init(params) up to and including the existsSync call; when the folder
\* is reported absent the call is suspended before mkdirSync, otherwise it
\* runs to its end (it touches the filesystem no more)
InitBegin(p, self, params) ==
  /\ frame[p] = <<>>
  /\ self \in DOMAIN heap[p]
  /\ IF params.console # <<>> /\ WantsFile(params) /\ ~existsSync(fs, params.file[1].path)
     THEN /\ frame' = [frame EXCEPT ![p] = <<[self |-> self, params |-> params]>>]
          /\ last' = [NoOp EXCEPT !.op = "initBegin", !.proc = p, !.self = self]
          /\ UNCHANGED <<heap, fs, okCfg, done>>
     ELSE /\ InitOutcome(p, self, params, init(heap[p][self], self, params, fs))
          /\ UNCHANGED frame
  /\ UNCHANGED <<_instance, held, returned>>

\* the rest of the suspended init: mkdirSync, the file transport, new Logger
InitCreate(p) ==
  /\ frame[p] # <<>>
  /\ LET f == frame[p][1]
         r == Complete(heap[p][f.self], f.self,
                       CreateAndAttach(f.params, fs, <<ConsoleTransport(f.params)>>)) IN
     InitOutcome(p, f.self, f.params, r)
  /\ frame' = [frame EXCEPT ![p] = <<>>]
  /\ UNCHANGED <<_instance, held, returned>>

NextRace ==
  \/ \E p \in Procs : GetLog(p)
  \/ \E p \in Procs, params \in RaceParams : \E self \in DOMAIN heap[p] :
       InitBegin(p, self, params)
  \/ \E p \in Procs : InitCreate(p)
  \/ \E P \in RealPaths : CleanLogs(P)

SpecRace == Init /\ [][NextRace]_vars

\* ================================================================ claims
\* What the specification says of a leveled method: its severity rank.
SeverityOf(method) ==
  CASE method = "error" -> 0 [] method = "warn" -> 1 [] method = "info" -> 2
    [] method = "verbose" -> 3 [] method = "debug" -> 4 [] method = "silly" -> 5

\* The sinks a configuration asks for: a console sink when it has a console
\* section, a file sink when it has a file section naming a path.
DescribedSinks(cfg) ==
  (IF cfg.console # <<>>
   THEN {[name |-> "console", level |-> cfg.console[1].level, json |-> FALSE]} ELSE {})
  \cup
  (IF cfg.file # <<>> /\ cfg.file[1].path # ""
   THEN {[name |-> "dailyRotateFile", level |-> cfg.file[1].level,
          json |-> cfg.file[1].logAsJson]} ELSE {})

\* The sinks attached to an object
AttachedSinks(obj) ==
  IF obj._logger = <<>> THEN {}
  ELSE {[name |-> tr.name, level |-> tr.level, json |-> tr.json] :
          tr \in {obj._logger[1].transports[i] : i \in DOMAIN obj._logger[1].transports}}

NumAttached(obj) == IF obj._logger = <<>> THEN 0 ELSE Len(obj._logger[1].transports)

\* The entries a call at the given severity must produce under cfg
ExpectedEntries(cfg, sev, msg) ==
  {[transport |-> d.name, json |-> d.json, level |-> Levels[sev + 1], message |-> msg] :
     d \in {x \in DescribedSinks(cfg) : sev <= Rank(x.level)}}

EntrySet(emitted) == {emitted[i] : i \in DOMAIN emitted}

IsCall == last.op \in {"leveled", "write", "heldwrite"}
Target == heap[last.proc][last.self]
TargetCfg == okCfg[last.proc][last.self]

\* C1: a leveled call on an object that no init has made ready fails with the
\* uninitialized-logger error and hands nothing to any sink, at every level.
C1_UninitializedCallFails ==
  (last.op = "leveled" /\ TargetCfg = <<>>) =>
     (last.threw = "NotInitialized" /\ last.emitted = <<>>)

C1_Witness ==
  /\ last.op = "leveled" /\ last.method = "silly"
  /\ TargetCfg = <<>>
  /\ last.threw = "NotInitialized"

\* C2: after init, a call at severity M is emitted by the console sink iff
\* M <= rank of the console level, by the file sink iff a file sink is
\* attached and M <= rank of the file level, and by nothing else.
C2_LevelFilter ==
  (last.op = "leveled" /\ TargetCfg # <<>>) =>
     /\ last.threw = "none"
     /\ EntrySet(last.emitted) = ExpectedEntries(TargetCfg[1], SeverityOf(last.method), last.msg)
     /\ Len(last.emitted) = Cardinality(EntrySet(last.emitted))

\* the test's case: file sink at debug, an info call is written and a later
\* silly call is not
C2_Witness ==
  /\ last.op = "leveled" /\ last.method = "silly"
  /\ TargetCfg # <<>>
  /\ \E tr \in AttachedSinks(Target) : tr.name = "dailyRotateFile" /\ tr.level = "debug"
  /\ \A i \in DOMAIN last.emitted : last.emitted[i].transport # "dailyRotateFile"
  /\ \E i \in DOMAIN last.emitted : last.emitted[i].transport = "console"

\* C3: the attached sinks are exactly those of the latest successful init, one
\* of each kind at most, and a call is emitted once per sink at most.
C3_SinksReplaced ==
  /\ \A p \in Procs : \A i \in DOMAIN heap[p] :
       okCfg[p][i] # <<>> =>
          /\ AttachedSinks(heap[p][i]) = DescribedSinks(okCfg[p][i][1])
          /\ NumAttached(heap[p][i]) = Cardinality(DescribedSinks(okCfg[p][i][1]))
  /\ IsCall =>
       \A i, j \in DOMAIN last.emitted :
          last.emitted[i].transport = last.emitted[j].transport => i = j

\* a call after a re-init that dropped the file sink of the earlier init
C3_Witness ==
  /\ last.op = "leveled" /\ last.method = "error"
  /\ TargetCfg # <<>> /\ TargetCfg[1].file = <<>>
  /\ Len(last.emitted) = 1
  /\ fs[FolderRoot].logs = "dir" /\ fs[FolderRoot].parent = "dir"

\* C4 (as claimed): init succeeds whichever sections are present, attaching a
\* console sink iff there is a console section and a file sink iff there is
\* a file section.  (Stated where the directory can be created.)
C4_SectionsOptional ==
  (last.op = "init" /\ \A P \in RealPaths : fs[P].parent = "dir") =>
     /\ last.threw = "none"
     /\ (\E tr \in AttachedSinks(Target) : tr.name = "console") <=> last.console
     /\ (\E tr \in AttachedSinks(Target) : tr.name = "dailyRotateFile") <=> (last.file # <<>>)

\* C5 (as claimed): init with file.path = P, P a writable directory, succeeds
\* and leaves P/logs present, creating it as a directory when it was absent;
\* a console-only init leaves the filesystem as it was.
C5_LogsFolder ==
  [][ /\ \A P \in RealPaths :
           (last'.op = "init" /\ last'.file = <<P>> /\ fs[P].parent = "dir") =>
              /\ last'.threw = "none"
              /\ fs'[P].logs # "absent"
              /\ fs[P].logs = "absent" => fs'[P].logs = "dir"
      /\ (last'.op = "init" /\ last'.console /\ last'.file = <<>>) => fs' = fs
    ]_vars

\* C6 (as claimed): two processes that initialize with the same file.path and
\* both saw the logs folder absent both succeed (P a writable directory).
C6_ConcurrentInitSucceeds ==
  \A p, q \in Procs : \A P \in RealPaths :
     ( /\ p # q
       /\ fs[P].parent = "dir"
       /\ done[p].finished /\ done[p].path = <<P>> /\ done[p].sawAbsent
       /\ done[q].finished /\ done[q].path = <<P>> /\ done[q].sawAbsent )
     => (done[p].threw = "none" /\ done[q].threw = "none")

\* C7 (as claimed): when the logs directory cannot be had -- P is missing,
\* is not a directory or is read-only, or a non-directory already sits at
\* P/logs -- or the console sink cannot be built, init throws to its caller
\* and never returns normally; mkdirSync is called at most once per init.
C7_InitFailureSurfaces ==
  [][ last'.op = "init" =>
        /\ last'.mkdirs <= 1
        /\ ~last'.console => last'.threw # "none"
        /\ \A P \in RealPaths :
             ( /\ last'.console /\ last'.file = <<P>>
               /\ \/ fs[P].logs = "file"
                  \/ fs[P].logs = "absent" /\ fs[P].parent # "dir" )
             => last'.threw # "none"
    ]_vars

\* C8 (as claimed): in every state write(m) has the outcome of info(m): the
\* info entries of the attached sinks after init, the uninitialized-logger
\* error before.
C8_WriteIsInfoAlways ==
  last.op \in {"write", "heldwrite"} =>
     IF Target._logger = <<>>
     THEN last.threw = "NotInitialized" /\ last.emitted = <<>>
     ELSE /\ last.threw = "none"
          /\ EntrySet(last.emitted) = ExpectedEntries(TargetCfg[1], 2, last.msg)

\* C8 (amended): the adapter exists exactly on objects that have been
\* initialized; write(m) through it, also through a reference taken before a
\* re-init, has the outcome of info(m) on the sinks of the latest init;
\* where there is no adapter the attempt to write is a TypeError.
C8_WriteIsInfoOnceInitialized ==
  /\ \A p \in Procs : \A i \in DOMAIN heap[p] :
       (heap[p][i].morganWriteStream = <<>>) <=> (heap[p][i]._logger = <<>>)
  /\ \A p \in Procs : held[p] # <<>> => heap[p][held[p][1].owner]._logger # <<>>
  /\ last.op \in {"write", "heldwrite"} =>
       IF Target._logger = <<>>
       THEN last.threw = "TypeError" /\ last.emitted = <<>>
       ELSE /\ last.threw = "none"
            /\ EntrySet(last.emitted) = ExpectedEntries(TargetCfg[1], 2, last.msg)
            /\ Len(last.emitted) = Cardinality(EntrySet(last.emitted))

\* a reference taken under a console-only init, used after a re-init that
\* attached a file sink
C8_Witness ==
  /\ last.op = "heldwrite"
  /\ Len(last.emitted) = 2
  /\ \E i \in DOMAIN last.emitted :
       last.emitted[i].transport = "dailyRotateFile" /\ last.emitted[i].level = "info"

\* C9: a process never has more than one AppLogger; the getter always returns
\* it, creates it empty on first access and otherwise changes no object.
C9_Singleton ==
  [][ /\ \A p \in Procs :
           /\ Len(heap'[p]) <= 1
           /\ Cardinality(returned'[p]) <= 1
           /\ (heap'[p] # <<>>) <=> (_instance'[p] # <<>>)
      /\ last'.op = "Log" =>
           LET p == last'.proc IN
           /\ last'.self = _instance'[p][1]
           /\ \A i \in DOMAIN heap[p] : heap'[p][i] = heap[p][i]
           /\ \A i \in DOMAIN heap'[p] \ DOMAIN heap[p] :
                heap'[p][i]._logger = <<>> /\ heap'[p][i].morganWriteStream = <<>>
    ]_vars

\* the getter accessed again after a successful init
C9_Witness ==
  /\ last.op = "Log"
  /\ returned[Main] = {1}
  /\ heap[Main][1]._logger # <<>>

\* C10: a failed init changes no object, and an object that has a Logger
\* keeps having one.
C10_FailedInitKeepsState ==
  [][ /\ (last'.op = "init" /\ last'.threw # "none") =>
           (heap' = heap /\ held' = held /\ okCfg' = okCfg)
      /\ \A p \in Procs : \A i \in DOMAIN heap[p] :
           heap[p][i]._logger # <<>> =>
              (i \in DOMAIN heap'[p] /\ heap'[p][i]._logger # <<>>)
    ]_vars

\* a ready logger after a failed re-init, still answering a call
C10_Witness ==
  /\ last.op = "init" /\ last.threw # "none"
  /\ Target._logger # <<>>
  /\ AttachedSinks(Target) = DescribedSinks(TargetCfg[1])

====
